---- MODULE Spec2Model ----
(***************************************************************************)
(* A model of helpers.py, the helper module of the fault injection         *)
(* framework: rename_nodes, print_graph_stat, get_registers, the two       *)
(* argument-parser path validators, print_ports and show_and_exit.         *)
(*                                                                         *)
(* Python strings are sequences of one-character strings, so that          *)
(* concatenation, comparison and formatting are computed, not assumed.     *)
(* A networkx DiGraph is a record                                          *)
(*   nodes : the node keys in iteration (insertion) order,                 *)
(*   attr  : key -> attribute dict; the dict has the entry "node" (a       *)
(*           reference into the heap of Node objects) or is empty,         *)
(*   edges : a set of <<from, to>> pairs of keys.                          *)
(* Node objects live in `heap`, reference -> [name, type]; the fields a    *)
(* helper never reads or writes (parent_name, inputs, ...) are left out.   *)
(***************************************************************************)
EXTENDS Integers, Sequences, FiniteSets, TLC

VARIABLES
    pc,             \* position of the call under way
    graph,          \* the caller's graph (argument `graph`)
    heap,           \* the Node objects the graph's attribute dicts refer to
    heap0,          \* the Node objects as they were when the call was made
    suffix,         \* rename_nodes: argument `suffix`
    ignore_inputs,  \* rename_nodes: argument `ignore_inputs`
    ret,            \* rename_nodes: the graph returned
    graph0,         \* the graph as it was when the call was made
    registers,      \* nangate45_cell_library.registers
    TERMINAL_COLS,  \* the terminal width read when the module is loaded
    log,            \* the lines handed to logger.info, in order
    reg_ret,        \* get_registers: the list returned
    fs,             \* the file system: absolute path -> "file" or "dir"
    cwd,            \* the working directory of the process
    path_arg,       \* the string handed to a path validator
    path_ret,       \* the Path a validator returned
    exc,            \* the exception a call raised: [type, msg]
    ports,          \* print_ports: the dict, as its items in iteration order
    clitool,        \* show_and_exit: argument `clitool`
    packages,       \* show_and_exit: argument `packages`
    git,            \* what running `git describe` will do: [status, stdout]
    installed,      \* the installed distributions: name -> version
    stderr,         \* the strings written to sys.stderr, in order
    idx,            \* show_and_exit: the position of the loop in `packages`
    proc            \* the process: [exited, status]

vars == <<pc, graph, heap, heap0, suffix, ignore_inputs, ret, graph0,
          registers, TERMINAL_COLS, log, reg_ret, fs, cwd, path_arg,
          path_ret, exc, ports, clitool, packages, git, installed, stderr,
          idx, proc>>

show_vars == <<clitool, packages, git, installed, stderr, idx, proc>>

Running == [exited |-> FALSE, status |-> 0]

\* The state of show_and_exit when it is not called.
ShowIdle ==
    /\ clitool = << >>
    /\ packages = << >>
    /\ git = [status |-> "ran", stdout |-> << >>]
    /\ installed = << >>
    /\ stderr = << >>
    /\ idx = 0
    /\ proc = Running

\* The variables of the graph helpers and those of the path validators.
graph_vars == <<graph, heap, heap0, suffix, ignore_inputs, ret, graph0,
                registers, reg_ret>>

path_vars == <<fs, cwd, path_arg, path_ret, exc, ports>>

NoException == [type |-> "", msg |-> << >>]

NoPath == [root |-> << >>, parts |-> << >>]

\* The state of the path validators when none of them is called.
PathIdle ==
    /\ fs = (<< >> :> "dir")
    /\ cwd = << >>
    /\ path_arg = << >>
    /\ path_ret = NoPath
    /\ exc = NoException
    /\ ports = << >>

Range(s) == {s[i] : i \in 1..Len(s)}

SeqsUpTo(S, n) == UNION {[1..k -> S] : k \in 0..n}

IsInjective(s) == \A i, j \in 1..Len(s) : s[i] = s[j] => i = j

(***************************************************************************)
(* String literals of the source.                                          *)
(***************************************************************************)
STR_input == <<"i", "n", "p", "u", "t">>
STR_INPUT == <<"I", "N", "P", "U", "T">>
STR_AND2 == <<"A", "N", "D", "2">>

(***************************************************************************)
(* Bounds and input sets of the rename_nodes runs.                         *)
(***************************************************************************)
MaxNodes == 2

Keys == {<<"a">>, <<"b">>, <<"a", "b">>, <<"b", "b">>}

Suffixes == {<< >>, <<"b">>, <<"_", "1">>}

NodeTypes == {STR_input, STR_INPUT, STR_AND2}

EmptyGraph == [nodes |-> << >>, attr |-> << >>, edges |-> {}]

\* The edge sets tried for a node sequence: none, the chain along the
\* iteration order, the chain and its reverse, and every pair (self loops
\* included).
Chain(ks) == {<<ks[i], ks[i + 1]>> : i \in 1..(Len(ks) - 1)}

EdgeSets(ks) ==
    { {},
      Chain(ks),
      Chain(ks) \cup {<<e[2], e[1]>> : e \in Chain(ks)},
      Range(ks) \X Range(ks) }

(***************************************************************************)
(* rename_nodes                                                            *)
(***************************************************************************)
\* `node + suffix`, `node_attribute["node"].name + suffix`
str_add_sep(a, b) == a \o <<"_">> \o b

str_add_drop(a, b) == b

str_add(a, b) == a \o b

\* The two nested conditions of the loop body: a node is renamed unless
\* ignore_inputs is set and its record's type is "input".
should_rename_all(ign, type) == TRUE

should_rename(ign, type) == IF ign THEN type # STR_input ELSE TRUE

\* The for loop: one pass over graph.nodes(data=True) in iteration order,
\* filling name_mapping and updating the records' names in place.
RECURSIVE rename_loop(_, _, _, _, _, _)
rename_loop(G, i, sfx, ign, name_mapping, h) ==
    IF i > Len(G.nodes)
    THEN [name_mapping |-> name_mapping, heap |-> h]
    ELSE LET node == G.nodes[i]
             r == G.attr[node].node
         IN  IF should_rename(ign, h[r].type)
             THEN rename_loop(G, i + 1, sfx, ign,
                              (node :> str_add(node, sfx)) @@ name_mapping,
                              [h EXCEPT ![r].name = str_add(@, sfx)])
             ELSE rename_loop(G, i + 1, sfx, ign, name_mapping, h)

\* mapping.get(n, n)
NewKey(mapping, n) == IF n \in DOMAIN mapping THEN mapping[n] ELSE n

\* H.add_nodes_from(...): a key already present keeps its place.
RECURSIVE add_nodes_from(_, _)
add_nodes_from(H, new) ==
    IF new = << >>
    THEN H
    ELSE add_nodes_from(IF Head(new) \in Range(H) THEN H
                                                  ELSE Append(H, Head(new)),
                        Tail(new))

\* A relabelling that renames the nodes of the graph one after the other,
\* each on the graph the previous renames left.
RECURSIVE relabel_step(_, _, _)
relabel_step(G, mapping, todo) ==
    IF todo = << >>
    THEN G
    ELSE LET old == Head(todo)
             new == mapping[old]
             mv(k) == IF k = old THEN new ELSE k
         IN  IF old = new \/ old \notin Range(G.nodes)
             THEN relabel_step(G, mapping, Tail(todo))
             ELSE relabel_step(
                      [nodes |-> add_nodes_from(<< >>,
                                     [i \in 1..Len(G.nodes) |-> mv(G.nodes[i])]),
                       attr |-> [k \in {mv(n) : n \in Range(G.nodes)} |->
                                    IF k = new THEN G.attr[old] ELSE G.attr[k]],
                       edges |-> {<<mv(e[1]), mv(e[2])>> : e \in G.edges}],
                      mapping, Tail(todo))

relabel_nodes_inplace(G, mapping) ==
    relabel_step(G, mapping, SelectSeq(G.nodes, LAMBDA n : n \in DOMAIN mapping))

\* networkx.relabel_nodes(G, mapping) with its default copy=True: a new graph
\* is built from G; every new key comes from a key of G, the attribute dicts
\* are copied shallowly (the Node objects are shared) and a later node
\* overwrites the dict of an earlier one that got the same new key.
relabel_nodes(G, mapping) ==
    LET new == [i \in 1..Len(G.nodes) |-> NewKey(mapping, G.nodes[i])]
        Last(k) == CHOOSE i \in 1..Len(new) :
                       new[i] = k /\ \A j \in (i + 1)..Len(new) : new[j] # k
    IN  [nodes |-> add_nodes_from(<< >>, new),
         attr |-> [k \in Range(new) |-> G.attr[G.nodes[Last(k)]]],
         edges |-> {<<NewKey(mapping, e[1]), NewKey(mapping, e[2])>> :
                       e \in G.edges}]

\* The function as a whole: the graph returned and the heap left behind.
rename_nodes_result(G, h, sfx, ign) ==
    LET r == rename_loop(G, 1, sfx, ign, << >>, h)
    IN  [graph |-> relabel_nodes(G, r.name_mapping), heap |-> r.heap]

InitRename ==
    /\ pc = "call"
    /\ \E ks \in {s \in SeqsUpTo(Keys, MaxNodes) : IsInjective(s)} :
         \E ty \in [1..Len(ks) -> NodeTypes] :
           \E own \in [1..Len(ks) -> BOOLEAN] :
             \E es \in EdgeSets(ks) :
               /\ graph = [nodes |-> ks,
                           attr |-> [k \in Range(ks) |->
                                        [node |-> CHOOSE i \in 1..Len(ks) : ks[i] = k]],
                           edges |-> es]
               /\ heap = [r \in 1..Len(ks) |->
                             [name |-> IF own[r] THEN ks[r] ELSE <<"u", "_">> \o ks[r],
                              type |-> ty[r]]]
    /\ heap0 = heap
    /\ graph0 = graph
    /\ suffix \in Suffixes
    /\ ignore_inputs \in BOOLEAN
    /\ ret = EmptyGraph
    /\ registers = {}
    /\ TERMINAL_COLS = 0
    /\ log = << >>
    /\ reg_ret = << >>
    /\ PathIdle
    /\ ShowIdle

rename_nodes ==
    /\ pc = "call"
    /\ LET r == rename_nodes_result(graph, heap, suffix, ignore_inputs)
       IN  /\ heap' = r.heap
           /\ ret' = r.graph
    /\ pc' = "done"
    /\ UNCHANGED <<graph, heap0, graph0, suffix, ignore_inputs, registers,
                   TERMINAL_COLS, log, reg_ret>>
    /\ UNCHANGED path_vars
    /\ UNCHANGED show_vars

NextRename == rename_nodes

SpecRename == InitRename /\ [][NextRename]_vars

(***************************************************************************)
(* What the claims about rename_nodes speak of, in terms of the arguments  *)
(* of the call (graph, heap0, suffix, ignore_inputs) only.                 *)
(***************************************************************************)
RecOf(n) == graph.attr[n].node

KeptAsIs(n) == ignore_inputs /\ heap0[RecOf(n)].type = STR_input

ExpectedKey(n) == IF KeptAsIs(n) THEN n ELSE n \o suffix

ExpectedName(n) ==
    IF KeptAsIs(n) THEN heap0[RecOf(n)].name ELSE heap0[RecOf(n)].name \o suffix

\* No two nodes of the argument graph are given the same key.
NoKeyClash ==
    \A n, m \in Range(graph.nodes) : ExpectedKey(n) = ExpectedKey(m) => n = m

KeysMirrorNames ==
    \A n \in Range(graph.nodes) : heap0[RecOf(n)].name = n

Orders(s) ==
    {[i \in 1..Len(s) |-> s[p[i]]] : p \in Permutations(1..Len(s))}

\* The outcomes of the same call on the same graph for every order in which
\* the graph may hand out its nodes.
OtherOrders ==
    {rename_nodes_result([graph EXCEPT !.nodes = o], heap0, suffix, ignore_inputs) :
        o \in Orders(graph.nodes)}

\* C1: in the graph rename_nodes returns, a node whose record's type is
\* exactly "input" keeps its key and its record's name when ignore_inputs is
\* set; every other node, and every node when ignore_inputs is not set, has
\* the key old key + suffix and the record name old name + suffix; the
\* returned graph has no other keys, and a record sits at no other key than
\* its node's.
C1_RenameSelective ==
    pc = "done" =>
        /\ Range(ret.nodes) = {ExpectedKey(n) : n \in Range(graph.nodes)}
        /\ \A n \in Range(graph.nodes) :
              /\ heap[RecOf(n)].name = ExpectedName(n)
              /\ heap[RecOf(n)].type = heap0[RecOf(n)].type
              /\ \A k \in DOMAIN ret.attr :
                    ret.attr[k].node = RecOf(n) => k = ExpectedKey(n)
              /\ NoKeyClash => ret.attr[ExpectedKey(n)].node = RecOf(n)

C1_Witness ==
    /\ pc = "done"
    /\ ignore_inputs
    /\ suffix # << >>
    /\ \E n, m \in Range(graph.nodes) :
          /\ heap0[RecOf(n)].type = STR_input
          /\ heap0[RecOf(m)].type = STR_INPUT
          /\ n \in Range(ret.nodes)
          /\ (m \o suffix) \in Range(ret.nodes)
          /\ m \notin Range(ret.nodes)

\* The renames come from one snapshot: keys and edges of the returned graph
\* are the images of the argument graph's under old key -> expected key.
FromSnapshot ==
    /\ Range(ret.nodes) = {ExpectedKey(n) : n \in Range(graph.nodes)}
    /\ ret.edges = {<<ExpectedKey(e[1]), ExpectedKey(e[2])>> : e \in graph.edges}

\* C2 as stated: every rename is computed from one snapshot of the graph,
\* and the returned graph (keys, attached records, edges) and the records'
\* names are the same for every order in which the nodes are visited.
C2_OrderIndependent_Stated ==
    pc = "done" =>
        /\ FromSnapshot
        /\ \A o \in OtherOrders :
              /\ Range(o.graph.nodes) = Range(ret.nodes)
              /\ o.graph.edges = ret.edges
              /\ o.heap = heap
              /\ o.graph.attr = ret.attr

\* C2 as amended: every rename is computed from one snapshot of the graph;
\* the keys and edges of the returned graph and the records' names are the
\* same for every visiting order; the record attached to each key is the same
\* for every visiting order whenever no two nodes are given the same key
\* (always so when ignore_inputs is not set), and then each node's record is
\* found at the node's new key.
C2_OrderIndependent ==
    pc = "done" =>
        /\ FromSnapshot
        /\ \A o \in OtherOrders :
              /\ Range(o.graph.nodes) = Range(ret.nodes)
              /\ o.graph.edges = ret.edges
              /\ o.heap = heap
              /\ NoKeyClash => o.graph.attr = ret.attr
        /\ ~ignore_inputs => NoKeyClash
        /\ NoKeyClash =>
              \A n \in Range(graph.nodes) : ret.attr[ExpectedKey(n)] = graph.attr[n]

\* A renamed key equals the old key of another renamed node, and still no
\* rename builds on it.
C2_Witness ==
    /\ pc = "done"
    /\ ~ignore_inputs
    /\ suffix # << >>
    /\ graph.edges # {}
    /\ \E n, m \in Range(graph.nodes) :
          /\ n \o suffix = m
          /\ ret.attr[m] = graph.attr[n]
          /\ ret.attr[m \o suffix] = graph.attr[m]

\* C3: with the empty string as suffix the returned graph has the keys (in
\* the same order), the attribute dicts and the edges of the argument graph,
\* and no record's name has changed, for either value of ignore_inputs.
C3_EmptySuffixIdentity ==
    (pc = "done" /\ suffix = << >>) =>
        /\ ret.nodes = graph.nodes
        /\ ret.edges = graph.edges
        /\ ret.attr = graph.attr
        /\ heap = heap0

C3_Witness ==
    /\ pc = "done"
    /\ suffix = << >>
    /\ Len(graph.nodes) >= 2
    /\ graph.edges # {}
    /\ \E n \in Range(graph.nodes) : heap0[RecOf(n)].type # STR_input

\* What C10 concludes: no two nodes were merged.
NothingMerged ==
    /\ Len(ret.nodes) = Len(graph.nodes)
    /\ Cardinality(ret.edges) = Cardinality(graph.edges)
    /\ \A n \in Range(graph.nodes) :
          Cardinality({k \in DOMAIN ret.attr : ret.attr[k].node = RecOf(n)}) = 1
    /\ \A n, m \in Range(graph.nodes) :
          heap[RecOf(n)].name = heap[RecOf(m)].name => n = m

\* C10 as stated: for a graph whose keys are pairwise distinct and equal to
\* their records' names, and for either value of ignore_inputs, the returned
\* graph has as many nodes and edges as the argument graph, every record is
\* attached to exactly one node and the record names are pairwise distinct.
C10_NoMerge_Stated ==
    (pc = "done" /\ KeysMirrorNames) => NothingMerged

\* C10 as amended: the same holds when ignore_inputs is not set, and when it
\* is set provided no key of a renamed node, with the suffix appended, is the
\* key of a node of type "input".
C10_NoMerge ==
    (/\ pc = "done"
     /\ KeysMirrorNames
     /\ ignore_inputs =>
           \A n, m \in Range(graph.nodes) :
              (heap0[RecOf(n)].type # STR_input /\ heap0[RecOf(m)].type = STR_input)
                  => n \o suffix # m)
        => NothingMerged

C10_Witness ==
    /\ pc = "done"
    /\ KeysMirrorNames
    /\ suffix # << >>
    /\ ignore_inputs
    /\ \E n, m \in Range(graph.nodes) :
          /\ heap0[RecOf(n)].type = STR_input
          /\ heap0[RecOf(m)].type = STR_AND2
          /\ graph.edges = {<<n, m>>}
          /\ ret.edges = {<<n, m \o suffix>>}
          /\ Len(ret.nodes) = 2

(***************************************************************************)
(* print_graph_stat and get_registers                                      *)
(***************************************************************************)
STR_DFF == <<"D", "F", "F">>
STR_OR2 == <<"O", "R", "2">>

MaxStatNodes == 3

Widths == {0, 2}

GateTypes == {STR_AND2, STR_DFF, STR_OR2, STR_input}

\* The key of the i-th node of a netlist: "g", "gg", ...
GateKey(i) == [j \in 1..i |-> "g"]

\* header = "-" * int(TERMINAL_COLS)
header == [i \in 1..TERMINAL_COLS |-> "-"]

\* The code points of the characters of the gate types: numpy orders
\* strings by code point.
CodePoint ==
    ("2" :> 50) @@ ("A" :> 65) @@ ("D" :> 68) @@ ("F" :> 70) @@ ("N" :> 78) @@
    ("O" :> 79) @@ ("R" :> 82) @@ ("i" :> 105) @@ ("n" :> 110) @@ ("p" :> 112) @@
    ("t" :> 116) @@ ("u" :> 117)

RECURSIVE str_less(_, _)
str_less(s, t) ==
    IF t = << >> THEN FALSE
    ELSE IF s = << >> THEN TRUE
    ELSE IF CodePoint[Head(s)] # CodePoint[Head(t)]
         THEN CodePoint[Head(s)] < CodePoint[Head(t)]
         ELSE str_less(Tail(s), Tail(t))

\* str(n) of a non-negative integer
Digits == <<"0", "1", "2", "3", "4", "5", "6", "7", "8", "9">>

RECURSIVE int_str(_)
int_str(n) ==
    IF n < 10 THEN <<Digits[n + 1]>>
    ELSE int_str(n \div 10) \o <<Digits[(n % 10) + 1]>>

\* The first loop of print_graph_stat: the types of the nodes that have a
\* "node" entry, in iteration order.
RECURSIVE collect_gates(_, _, _)
collect_gates(G, h, i) ==
    IF i > Len(G.nodes) THEN << >>
    ELSE LET d == G.attr[G.nodes[i]]
         IN  (IF "node" \in DOMAIN d THEN <<h[d.node].type>> ELSE << >>)
                 \o collect_gates(G, h, i + 1)

\* Sorting, as numpy.unique does before it looks for the distinct values.
RECURSIVE insert_sorted(_, _)
insert_sorted(x, s) ==
    IF s = << >> THEN <<x>>
    ELSE IF str_less(Head(s), x) THEN <<Head(s)>> \o insert_sorted(x, Tail(s))
         ELSE <<x>> \o s

RECURSIVE np_sort(_)
np_sort(s) == IF s = << >> THEN << >> ELSE insert_sorted(Head(s), np_sort(Tail(s)))

\* The unique values of a sorted sequence with the length of each run.
RECURSIVE runs(_)
runs(s) ==
    IF s = << >> THEN << >>
    ELSE LET rest == runs(Tail(s))
         IN  IF rest # << >> /\ rest[1].value = Head(s)
             THEN <<[value |-> Head(s), count |-> rest[1].count + 1]>> \o Tail(rest)
             ELSE <<[value |-> Head(s), count |-> 1]>> \o rest

\* The distinct values in the order they first occur, each with its count.
RECURSIVE unique_unsorted(_)
unique_unsorted(s) ==
    IF s = << >> THEN << >>
    ELSE LET x == Head(s)
             same == SelectSeq(s, LAMBDA y : y = x)
             other == SelectSeq(s, LAMBDA y : y # x)
         IN  <<[value |-> x, count |-> Len(same)]>> \o unique_unsorted(other)

\* numpy.unique(gates, return_counts=True)
np_unique(gates) == runs(np_sort(gates))

\* gates[cnt] + ": " + str(number[cnt])
stat_line(u) == u.value \o <<":", " ">> \o int_str(u.count)

\* The condition of get_registers' loop; the one below forgets the table.
is_register_any(d, h, table) == "node" \in DOMAIN d

is_register(d, h, table) == ("node" \in DOMAIN d) /\ (h[d.node].type \in table)

RECURSIVE registers_loop(_, _, _, _)
registers_loop(G, h, table, i) ==
    IF i > Len(G.nodes) THEN << >>
    ELSE LET node == G.attr[G.nodes[i]]
         IN  (IF is_register(node, h, table) THEN <<node>> ELSE << >>)
                 \o registers_loop(G, h, table, i + 1)

\* A netlist of up to MaxStatNodes nodes, each with a Node record of some gate
\* type or with an empty attribute dict.
InitReport ==
    /\ pc = "call"
    /\ \E n \in 0..MaxStatNodes :
         \E ty \in [1..n -> GateTypes \cup {<< >>}] :
            /\ graph = [nodes |-> [i \in 1..n |-> GateKey(i)],
                        attr |-> [k \in {GateKey(i) : i \in 1..n} |->
                                     IF ty[Len(k)] = << >> THEN << >>
                                                           ELSE [node |-> Len(k)]],
                        edges |-> {<<GateKey(i), GateKey(i + 1)>> : i \in 1..(n - 1)}]
            /\ heap = [r \in {i \in 1..n : ty[i] # << >>} |->
                          [name |-> GateKey(r), type |-> ty[r]]]
    /\ heap0 = heap
    /\ graph0 = graph
    /\ registers \in SUBSET GateTypes
    /\ TERMINAL_COLS \in Widths
    /\ log = << >>
    /\ reg_ret = << >>
    /\ suffix = << >>
    /\ ignore_inputs = FALSE
    /\ ret = EmptyGraph
    /\ PathIdle
    /\ ShowIdle

print_graph_stat ==
    /\ pc = "call"
    /\ LET u == np_unique(collect_gates(graph, heap, 1))
       IN  log' = log \o [cnt \in 1..Len(u) |-> stat_line(u[cnt])] \o <<header>>
    /\ pc' = "stat_done"
    /\ UNCHANGED <<graph, heap, heap0, graph0, suffix, ignore_inputs, ret,
                   registers, TERMINAL_COLS, reg_ret>>
    /\ UNCHANGED path_vars
    /\ UNCHANGED show_vars

get_registers ==
    /\ pc = "call"
    /\ reg_ret' = registers_loop(graph, heap, registers, 1)
    /\ pc' = "reg_done"
    /\ UNCHANGED <<graph, heap, heap0, graph0, suffix, ignore_inputs, ret,
                   registers, TERMINAL_COLS, log>>
    /\ UNCHANGED path_vars
    /\ UNCHANGED show_vars

NextReport == print_graph_stat \/ get_registers

SpecReport == InitReport /\ [][NextReport]_vars

\* The nodes (positions in iteration order) that carry a record, their
\* types, and how many carry each type.
WithRecord == {i \in 1..Len(graph0.nodes) : "node" \in DOMAIN graph0.attr[graph0.nodes[i]]}

TypeAt(i) == heap0[graph0.attr[graph0.nodes[i]].node].type

TypesPresent == {TypeAt(i) : i \in WithRecord}

CountOf(t) == Cardinality({i \in WithRecord : TypeAt(i) = t})

\* The type with exactly j - 1 types before it in lexicographic order.
NthType(j) ==
    CHOOSE t \in TypesPresent :
        Cardinality({u \in TypesPresent : str_less(u, t)}) = j - 1

\* C4: print_graph_stat logs one line "<type>: <count>" per distinct type
\* among the nodes that carry a record, the count being the number of such
\* nodes of that type, in ascending lexicographic order of the type, and then
\* exactly one rule line; nodes without a record count nowhere.
C4_StatLines ==
    pc = "stat_done" =>
        /\ Len(log) = Cardinality(TypesPresent) + 1
        /\ log[Len(log)] = [i \in 1..TERMINAL_COLS |-> "-"]
        /\ \A j \in 1..Cardinality(TypesPresent) :
              /\ log[j] = NthType(j) \o <<":", " ">> \o int_str(CountOf(NthType(j)))
              /\ \A k \in 1..(j - 1) : str_less(NthType(k), NthType(j))
        /\ graph = graph0
        /\ heap = heap0

\* The example of the specification: AND2, AND2 and DFF in any order.
C4_Witness ==
    /\ pc = "stat_done"
    /\ Len(graph0.nodes) = 3
    /\ WithRecord = {1, 2, 3}
    /\ TypeAt(1) = STR_DFF
    /\ TypeAt(2) = STR_AND2
    /\ TypeAt(3) = STR_AND2
    /\ TERMINAL_COLS = 2
    /\ log = << <<"A", "N", "D", "2", ":", " ", "2">>,
                <<"D", "F", "F", ":", " ", "1">>,
                <<"-", "-">> >>

\* The positions of the nodes get_registers is to report.
Qualifying == {i \in WithRecord : TypeAt(i) \in registers}

NthQualifying(j) ==
    CHOOSE i \in Qualifying : Cardinality({q \in Qualifying : q < i}) = j - 1

MaxPathLen == 6

PathChars == {"/", ".", "a"}

STR_a == <<"a">>

\* The file systems tried: / alone, /a a file, /a a directory that is empty
\* or holds a file or a directory a.
FileSystems ==
    { (<< >> :> "dir"),
      (<< >> :> "dir") @@ (<<STR_a>> :> "file"),
      (<< >> :> "dir") @@ (<<STR_a>> :> "dir"),
      (<< >> :> "dir") @@ (<<STR_a>> :> "dir") @@ (<<STR_a, STR_a>> :> "file"),
      (<< >> :> "dir") @@ (<<STR_a>> :> "dir") @@ (<<STR_a, STR_a>> :> "dir") }

RECURSIVE split_slash(_, _)
split_slash(s, cur) ==
    IF s = << >> THEN <<cur>>
    ELSE IF Head(s) = "/" THEN <<cur>> \o split_slash(Tail(s), << >>)
         ELSE split_slash(Tail(s), Append(cur, Head(s)))

RECURSIVE leading_slashes(_)
leading_slashes(s) ==
    IF s # << >> /\ Head(s) = "/" THEN 1 + leading_slashes(Tail(s)) ELSE 0

\* Path(s): POSIX keeps exactly two leading slashes apart from one; empty
\* components and "." components are dropped, ".." is kept.
Path(s) ==
    [root |-> IF leading_slashes(s) = 0 THEN << >>
              ELSE IF leading_slashes(s) = 2 THEN <<"/", "/">>
              ELSE <<"/">>,
     parts |-> SelectSeq(split_slash(s, << >>),
                         LAMBDA c : c # << >> /\ c # <<".">>)]

RECURSIVE join_parts(_)
join_parts(parts) ==
    IF parts = << >> THEN << >>
    ELSE IF Len(parts) = 1 THEN parts[1]
    ELSE parts[1] \o <<"/">> \o join_parts(Tail(parts))

\* str(path), as the f-strings of the two messages format it
path_str(p) ==
    IF p.root = << >> /\ p.parts = << >> THEN <<".">>
    ELSE p.root \o join_parts(p.parts)

\* path.parent; the one below is the path itself.
path_self(p) == p

path_parent(p) ==
    IF p.parts = << >> THEN p
    ELSE [p EXCEPT !.parts = SubSeq(p.parts, 1, Len(p.parts) - 1)]

\* What the kernel finds walking the components from a directory.
RECURSIVE walk(_, _, _)
walk(files, at, parts) ==
    IF parts = << >> THEN [found |-> TRUE, at |-> at]
    ELSE IF files[at] # "dir" THEN [found |-> FALSE, at |-> at]
    ELSE IF Head(parts) = <<".", ".">>
         THEN walk(files, IF at = << >> THEN at ELSE SubSeq(at, 1, Len(at) - 1),
                   Tail(parts))
    ELSE IF Append(at, Head(parts)) \in DOMAIN files
         THEN walk(files, Append(at, Head(parts)), Tail(parts))
    ELSE [found |-> FALSE, at |-> at]

stat(files, dir, p) == walk(files, IF p.root = << >> THEN dir ELSE << >>, p.parts)

\* path.exists()
path_exists(files, dir, p) == stat(files, dir, p).found

\* path.is_file(); the one below is content with anything that exists.
is_file_any(files, dir, p) == stat(files, dir, p).found

is_file(files, dir, p) ==
    LET st == stat(files, dir, p) IN st.found /\ files[st.at] = "file"

STR_File == <<"F", "i", "l", "e", " ">>
STR_Path == <<"P", "a", "t", "h", " ">>
STR_does_not_exist ==
    <<" ", "d", "o", "e", "s", " ", "n", "o", "t", " ", "e", "x", "i", "s", "t">>

InitPath ==
    /\ pc = "call"
    /\ fs \in FileSystems
    /\ cwd \in {d \in DOMAIN fs : fs[d] = "dir"}
    /\ path_arg \in SeqsUpTo(PathChars, MaxPathLen)
    /\ path_ret = NoPath
    /\ exc = NoException
    /\ ports = << >>
    /\ graph = EmptyGraph
    /\ graph0 = EmptyGraph
    /\ heap = << >>
    /\ heap0 = << >>
    /\ suffix = << >>
    /\ ignore_inputs = FALSE
    /\ ret = EmptyGraph
    /\ registers = {}
    /\ reg_ret = << >>
    /\ TERMINAL_COLS = 0
    /\ log = << >>
    /\ ShowIdle

ap_check_file_exists ==
    /\ pc = "call"
    /\ LET path == Path(path_arg)
       IN  \/ /\ ~is_file(fs, cwd, path)
              /\ exc' = [type |-> "ArgumentTypeError",
                         msg |-> STR_File \o path_str(path) \o STR_does_not_exist]
              /\ pc' = "file_raised"
              /\ UNCHANGED path_ret
           \/ /\ is_file(fs, cwd, path)
              /\ path_ret' = path
              /\ pc' = "file_returned"
              /\ UNCHANGED exc
    /\ UNCHANGED <<fs, cwd, path_arg, ports, TERMINAL_COLS, log>>
    /\ UNCHANGED graph_vars
    /\ UNCHANGED show_vars

ap_check_dir_exists ==
    /\ pc = "call"
    /\ LET path == Path(path_arg)
       IN  \/ /\ ~path_exists(fs, cwd, path_parent(path))
              /\ exc' = [type |-> "ArgumentTypeError",
                         msg |-> STR_Path \o path_str(path_parent(path))
                                     \o STR_does_not_exist]
              /\ pc' = "dir_raised"
              /\ UNCHANGED path_ret
           \/ /\ path_exists(fs, cwd, path_parent(path))
              /\ path_ret' = path
              /\ pc' = "dir_returned"
              /\ UNCHANGED exc
    /\ UNCHANGED <<fs, cwd, path_arg, ports, TERMINAL_COLS, log>>
    /\ UNCHANGED graph_vars
    /\ UNCHANGED show_vars

NextPath == ap_check_file_exists \/ ap_check_dir_exists

SpecPath == InitPath /\ [][NextPath]_vars

\* What the argument string names: the entry the kernel reaches from the
\* working directory (or from / for an absolute path), if any.
Named == stat(fs, cwd, Path(path_arg))

NamesRegularFile == Named.found /\ fs[Named.at] = "file"

\* Path(path_arg).resolve() of a path that exists: absolute, no "..".
Resolved == [root |-> <<"/">>, parts |-> Named.at]

FileMessage == STR_File \o path_str(Path(path_arg)) \o STR_does_not_exist

\* C6 as stated: ap_check_file_exists succeeds exactly when the path names
\* an existing regular file; it then returns the resolved path, equal to the
\* path given; otherwise it raises ArgumentTypeError with the message
\* "File <path> does not exist" and returns nothing.
C6_FileExists_Stated ==
    pc \in {"file_returned", "file_raised"} =>
        /\ pc = "file_returned" <=> NamesRegularFile
        /\ pc = "file_returned" =>
              /\ path_ret = Resolved
              /\ path_ret = Path(path_arg)
              /\ exc = NoException
        /\ pc = "file_raised" =>
              /\ exc = [type |-> "ArgumentTypeError", msg |-> FileMessage]
              /\ path_ret = NoPath

\* C6 as amended: ap_check_file_exists succeeds exactly when the path names
\* an existing regular file (a directory or a missing path fails); it then
\* returns the Path built from the string as it was given, not resolved: a
\* relative path stays relative and ".." stays in it; otherwise it raises
\* ArgumentTypeError with the message "File <path> does not exist", <path>
\* being that Path printed, and returns nothing.
C6_FileExists ==
    pc \in {"file_returned", "file_raised"} =>
        /\ pc = "file_returned" <=> NamesRegularFile
        /\ pc = "file_returned" =>
              /\ path_ret = Path(path_arg)
              /\ path_ret.root = << >> <=> leading_slashes(path_arg) = 0
              /\ \A i \in 1..Len(path_ret.parts) :
                    \E j \in 1..Len(path_arg) :
                       j + Len(path_ret.parts[i]) - 1 <= Len(path_arg)
                       /\ SubSeq(path_arg, j, j + Len(path_ret.parts[i]) - 1)
                              = path_ret.parts[i]
              /\ exc = NoException
        /\ pc = "file_raised" =>
              /\ exc = [type |-> "ArgumentTypeError", msg |-> FileMessage]
              /\ path_ret = NoPath

\* A relative path with ".." in it that names the regular file /a/a.
C6_Witness ==
    /\ pc = "file_returned"
    /\ cwd = <<STR_a>>
    /\ path_arg = <<".", ".", "/", "a", "/", "a">>
    /\ fs[<<STR_a, STR_a>>] = "file"
    /\ path_ret = [root |-> << >>, parts |-> <<<<".", ".">>, STR_a, STR_a>>]
    /\ path_ret # Resolved

LexicalParent ==
    LET p == Path(path_arg)
    IN  IF p.parts = << >> THEN p
        ELSE [root |-> p.root, parts |-> [i \in 1..(Len(p.parts) - 1) |-> p.parts[i]]]

ParentNamed == stat(fs, cwd, LexicalParent)

PathMessage == STR_Path \o path_str(LexicalParent) \o STR_does_not_exist

MaxPorts == 3

PortNames == {<<"a">>, <<"b">>, <<"c">>, <<"a", "b">>}

STR_output == <<"o", "u", "t", "p", "u", "t">>
STR_inout == <<"i", "n", "o", "u", "t">>

PortTypes == {STR_input, STR_output, STR_inout}

STR_Inputs == <<"I", "n", "p", "u", "t", "s", ":", " ", " ">>
STR_Outputs == <<"O", "u", "t", "p", "u", "t", "s", ":", " ">>

\* `port.type == "input"`; the one below takes all that is no output.
is_input_port_lax(type) == type # STR_output

is_input_port(type) == type = STR_input

\* The loop over ports.items(): the two strings after the first i - 1 items.
RECURSIVE ports_loop(_, _, _, _)
ports_loop(items, i, in_string, out_string) ==
    IF i > Len(items) THEN [in_string |-> in_string, out_string |-> out_string]
    ELSE IF is_input_port(items[i].type)
         THEN ports_loop(items, i + 1, in_string \o items[i].port_name \o <<" ">>,
                         out_string)
         ELSE ports_loop(items, i + 1, in_string,
                         out_string \o items[i].port_name \o <<" ">>)

InitPorts ==
    /\ pc = "call"
    /\ \E ns \in {s \in SeqsUpTo(PortNames, MaxPorts) : IsInjective(s)} :
         \E ty \in [1..Len(ns) -> PortTypes] :
            ports = [i \in 1..Len(ns) |-> [port_name |-> ns[i], type |-> ty[i]]]
    /\ TERMINAL_COLS \in Widths
    /\ log = << >>
    /\ fs = (<< >> :> "dir")
    /\ cwd = << >>
    /\ path_arg = << >>
    /\ path_ret = NoPath
    /\ exc = NoException
    /\ graph = EmptyGraph
    /\ graph0 = EmptyGraph
    /\ heap = << >>
    /\ heap0 = << >>
    /\ suffix = << >>
    /\ ignore_inputs = FALSE
    /\ ret = EmptyGraph
    /\ registers = {}
    /\ reg_ret = << >>
    /\ ShowIdle

print_ports ==
    /\ pc = "call"
    /\ LET r == ports_loop(ports, 1, STR_Inputs, STR_Outputs)
       IN  log' = log \o <<header, r.in_string, r.out_string, header>>
    /\ pc' = "ports_done"
    /\ UNCHANGED <<TERMINAL_COLS>>
    /\ UNCHANGED graph_vars
    /\ UNCHANGED path_vars
    /\ UNCHANGED show_vars

NextPorts == print_ports

SpecPorts == InitPorts /\ [][NextPorts]_vars

\* The words of a line after its nine-character label: the maximal runs of
\* characters other than the blank.
RECURSIVE Words(_, _)
Words(line, cur) ==
    IF line = << >> THEN (IF cur = << >> THEN << >> ELSE <<cur>>)
    ELSE IF Head(line) = " "
         THEN (IF cur = << >> THEN << >> ELSE <<cur>>) \o Words(Tail(line), << >>)
         ELSE Words(Tail(line), Append(cur, Head(line)))

WordsAfterLabel(line) == Words(SubSeq(line, 10, Len(line)), << >>)

InputPositions == {i \in 1..Len(ports) : ports[i].type = STR_input}

OtherPositions == (1..Len(ports)) \ InputPositions

\* The j-th smallest member of a set of positions.
NthOf(S, j) == CHOOSE i \in S : Cardinality({q \in S : q < i}) = j - 1

\* C8: print_ports logs four lines: a rule, the Inputs line, the Outputs
\* line, a rule; the Inputs line lists the names of exactly the ports whose
\* type is "input" and the Outputs line those of all other ports, each name
\* once and in the iteration order of the mapping.
C8_PortLines ==
    pc = "ports_done" =>
        /\ Len(log) = 4
        /\ log[1] = [i \in 1..TERMINAL_COLS |-> "-"]
        /\ log[4] = log[1]
        /\ SubSeq(log[2], 1, 9) = <<"I", "n", "p", "u", "t", "s", ":", " ", " ">>
        /\ SubSeq(log[3], 1, 9) = <<"O", "u", "t", "p", "u", "t", "s", ":", " ">>
        /\ Len(WordsAfterLabel(log[2])) = Cardinality(InputPositions)
        /\ \A j \in 1..Cardinality(InputPositions) :
              WordsAfterLabel(log[2])[j] = ports[NthOf(InputPositions, j)].port_name
        /\ Len(WordsAfterLabel(log[3])) = Cardinality(OtherPositions)
        /\ \A j \in 1..Cardinality(OtherPositions) :
              WordsAfterLabel(log[3])[j] = ports[NthOf(OtherPositions, j)].port_name

\* The example of the specification with an inout port in place of the
\* output: a and c are inputs, b is not.
C8_Witness ==
    /\ pc = "ports_done"
    /\ ports = <<[port_name |-> <<"a">>, type |-> STR_input],
                 [port_name |-> <<"b">>, type |-> STR_inout],
                 [port_name |-> <<"c">>, type |-> STR_input]>>
    /\ TERMINAL_COLS = 2
    /\ log = << <<"-", "-">>,
                <<"I", "n", "p", "u", "t", "s", ":", " ", " ", "a", " ", "c", " ">>,
                <<"O", "u", "t", "p", "u", "t", "s", ":", " ", "b", " ">>,
                <<"-", "-">> >>

(***************************************************************************)
(* show_and_exit                                                           *)
(***************************************************************************)
MaxPackages == 2

STR_nx == <<"n", "x">>
STR_np == <<"n", "p">>
STR_zz == <<"z", "z">>

PackageNames == {STR_nx, STR_np, STR_zz}

\* The registries tried: nx and np installed, or nx alone; zz never is.
Registries ==
    { (STR_nx :> <<"2", ".", "5">>) @@ (STR_np :> <<"1", ".", "9">>),
      (STR_nx :> <<"2", ".", "5">>) }

\* The file system of the tool: the script /a/a in the directory /a.
ToolFs == (<< >> :> "dir") @@ (<<STR_a>> :> "dir") @@ (<<STR_a, STR_a>> :> "file")

ToolPaths == {<<"/", "a", "/", "a">>, <<"a", "/", "a">>, <<"a">>, <<".", "/", "a">>}

\* What `git describe --always --dirty --broken` may do in the directory of
\* the tool: print a revision, print nothing on stdout (no repository),
\* print a tag that is not ASCII, or not be there to run.
GitOutcomes ==
    { [status |-> "ran", stdout |-> <<"v", "1", "-", "2", "-", "g", "a", "b", "\n">>],
      [status |-> "ran", stdout |-> <<"a", "b", "-", "d", "i", "r", "t", "y", "\n">>],
      [status |-> "ran", stdout |-> << >>],
      [status |-> "ran", stdout |-> <<"v", "0xE9", "\n">>],
      [status |-> "not_installed", stdout |-> << >>] }

STR_Git_version == <<" ", "G", "i", "t", " ", "v", "e", "r", "s", "i", "o", "n", " ">>
STR_not_found == <<"n", "o", "t", " ", "f", "o", "u", "n", "d", " ", "(", "n", "o", "t", " ", "i", "n", " ", "G", "i", "t", " ", "r", "e", "p", "o", "s", "i", "t", "o", "r", "y", "?", ")">>

Whitespace == {" ", "\n"}

\* bytes.strip()
RECURSIVE lstrip(_)
lstrip(s) == IF s # << >> /\ Head(s) \in Whitespace THEN lstrip(Tail(s)) ELSE s

RECURSIVE rstrip(_)
rstrip(s) ==
    IF s # << >> /\ s[Len(s)] \in Whitespace THEN rstrip(SubSeq(s, 1, Len(s) - 1))
    ELSE s

strip(s) == rstrip(lstrip(s))

\* bytes.decode('ascii') succeeds
is_ascii(s) == \A i \in 1..Len(s) : s[i] # "0xE9"

\* `if (ver == ''): ver = 'not found ...'`; the one below has no fallback.
ver_or_fallback_none(ver) == ver

ver_or_fallback(ver) == IF ver = << >> THEN STR_not_found ELSE ver

\* Path(clitool).resolve().parent, as the directory os.chdir ends in
util_path(files, dir, tool) ==
    LET at == stat(files, dir, Path(tool)).at
    IN  SubSeq(at, 1, Len(at) - 1)

InitShow ==
    /\ pc = "call"
    /\ fs = ToolFs
    /\ cwd \in {d \in DOMAIN fs : fs[d] = "dir"}
    /\ clitool \in {t \in ToolPaths : is_file(fs, cwd, Path(t))}
    /\ packages \in SeqsUpTo(PackageNames, MaxPackages)
    /\ git \in GitOutcomes
    /\ installed \in Registries
    /\ stderr = << >>
    /\ idx = 0
    /\ proc = Running
    /\ path_arg = << >>
    /\ path_ret = NoPath
    /\ exc = NoException
    /\ ports = << >>
    /\ TERMINAL_COLS = 0
    /\ log = << >>
    /\ graph = EmptyGraph
    /\ graph0 = EmptyGraph
    /\ heap = << >>
    /\ heap0 = << >>
    /\ suffix = << >>
    /\ ignore_inputs = FALSE
    /\ ret = EmptyGraph
    /\ registers = {}
    /\ reg_ret = << >>

\* Lines 30 to 37: change directory, ask git, write the first line.
show_start ==
    /\ pc = "call"
    /\ cwd' = util_path(fs, cwd, clitool)
    /\ \/ /\ git.status = "not_installed"
          /\ exc' = [type |-> "FileNotFoundError", msg |-> << >>]
          /\ pc' = "raised"
          /\ UNCHANGED <<stderr, idx>>
       \/ /\ git.status = "ran"
          /\ ~is_ascii(strip(git.stdout))
          /\ exc' = [type |-> "UnicodeDecodeError", msg |-> << >>]
          /\ pc' = "raised"
          /\ UNCHANGED <<stderr, idx>>
       \/ /\ git.status = "ran"
          /\ is_ascii(strip(git.stdout))
          /\ stderr' = Append(stderr, clitool \o STR_Git_version
                                          \o ver_or_fallback(strip(git.stdout))
                                          \o <<"\n">>)
          /\ idx' = 1
          /\ pc' = "loop"
          /\ UNCHANGED exc
    /\ UNCHANGED <<fs, path_arg, path_ret, ports, TERMINAL_COLS, log,
                   clitool, packages, git, installed, proc>>
    /\ UNCHANGED graph_vars

\* One pass of the loop over the packages.
show_package ==
    /\ pc = "loop"
    /\ idx <= Len(packages)
    /\ LET p == packages[idx]
       IN  \/ /\ p \notin DOMAIN installed
              /\ exc' = [type |-> "DistributionNotFound", msg |-> p]
              /\ pc' = "raised"
              /\ UNCHANGED <<stderr, idx>>
           \/ /\ p \in DOMAIN installed
              /\ stderr' = Append(stderr, p \o <<" ">> \o installed[p] \o <<"\n">>)
              /\ idx' = idx + 1
              /\ UNCHANGED <<pc, exc>>
    /\ UNCHANGED <<fs, cwd, path_arg, path_ret, ports, TERMINAL_COLS, log,
                   clitool, packages, git, installed, proc>>
    /\ UNCHANGED graph_vars

\* exit(0)
show_exit ==
    /\ pc = "loop"
    /\ idx > Len(packages)
    /\ proc' = [exited |-> TRUE, status |-> 0]
    /\ pc' = "exited"
    /\ UNCHANGED <<fs, cwd, path_arg, path_ret, exc, ports, TERMINAL_COLS, log,
                   clitool, packages, git, installed, stderr, idx>>
    /\ UNCHANGED graph_vars

NextShow == show_start \/ show_package \/ show_exit

SpecShow == InitShow /\ [][NextShow]_vars

\* The executions the claim speaks of: git ran and printed a revision or
\* nothing.
GitAnswered ==
    /\ git.status = "ran"
    /\ \A i \in 1..Len(git.stdout) : git.stdout[i] # "0xE9"

Revision ==
    LET body == SelectSeq(git.stdout, LAMBDA c : c # "\n")
    IN  IF body = << >> THEN STR_not_found ELSE body

ToolLine == clitool \o STR_Git_version \o Revision \o <<"\n">>

AllKnown == \A i \in 1..Len(packages) : packages[i] \in DOMAIN installed

\* The number of packages before the first one that is not installed.
KnownPrefix ==
    CHOOSE n \in 0..Len(packages) :
        /\ \A i \in 1..n : packages[i] \in DOMAIN installed
        /\ n < Len(packages) => packages[n + 1] \notin DOMAIN installed

PackageLine(i) == packages[i] \o <<" ">> \o installed[packages[i]] \o <<"\n">>

Ended == pc \in {"exited", "raised"}

\* C9 as stated: every execution in which git yields a revision or the
\* fallback string, whether or not every requested package is known, ends
\* with the process terminated with exit status 0, after the tool line and
\* one line per package in the given order have been written to stderr.
C9_AlwaysExits_Stated ==
    (Ended /\ GitAnswered) =>
        /\ pc = "exited"
        /\ proc = [exited |-> TRUE, status |-> 0]
        /\ Len(stderr) = 1 + Len(packages)
        /\ stderr[1] = ToolLine
        /\ \A i \in 1..Len(packages) :
              SubSeq(stderr[i + 1], 1, Len(packages[i]) + 1) = packages[i] \o <<" ">>

\* C9 as amended: show_and_exit never returns normally.  When git yields a
\* revision or the fallback string and every requested package is installed,
\* the execution ends with the process terminated with exit status 0, after
\* the tool line and one line per package in the given order have been
\* written to stderr.  When a requested package is not installed, the
\* execution ends with DistributionNotFound raised to the caller, the tool
\* line and the lines of the packages before that one written, and the
\* process not terminated by the function.  When git cannot be run or prints
\* a revision that is not ASCII, an exception is raised before anything is
\* written.
C9_ExitsOrRaises ==
    Ended =>
        /\ pc = "exited" <=> (GitAnswered /\ AllKnown)
        /\ pc = "exited" =>
              /\ proc = [exited |-> TRUE, status |-> 0]
              /\ exc = NoException
              /\ stderr = <<ToolLine>> \o [i \in 1..Len(packages) |-> PackageLine(i)]
        /\ (pc = "raised" /\ GitAnswered) =>
              /\ proc = Running
              /\ exc = [type |-> "DistributionNotFound",
                        msg |-> packages[KnownPrefix + 1]]
              /\ stderr = <<ToolLine>> \o [i \in 1..KnownPrefix |-> PackageLine(i)]
        /\ (pc = "raised" /\ ~GitAnswered) =>
              /\ proc = Running
              /\ exc.type \in {"FileNotFoundError", "UnicodeDecodeError"}
              /\ stderr = << >>
        /\ cwd = <<STR_a>>

\* No repository, two installed packages: three lines and exit status 0.
C9_Witness ==
    /\ pc = "exited"
    /\ git.stdout = << >>
    /\ packages = <<STR_np, STR_nx>>
    /\ proc.exited
    /\ proc.status = 0
    /\ Len(stderr) = 3
    /\ stderr[1] = clitool \o STR_Git_version \o STR_not_found \o <<"\n">>
    /\ stderr[2] = <<"n", "p", " ", "1", ".", "9", "\n">>
    /\ stderr[3] = <<"n", "x", " ", "2", ".", "5", "\n">>

====
